---- MODULE Spec2Model ----
(***************************************************************************)
(* Model of the number filtering page (src/project/src/pages/              *)
(* NumberFiltering.tsx): the record store `numbers`, the normalizer        *)
(* validatePhoneNumber, the batch loop of startProcessing with its retry   *)
(* loop, checkWhatsAppNumbers / simulateWhatsAppCheck, handleCancel; and   *)
(* of the sending part of the WhatsApp page (src/project/src/pages/        *)
(* WhatsApp.tsx): handleSend, handleBulkSend, handleCancel and the         *)
(* delivery status polling.                                                *)
(*                                                                         *)
(* JavaScript runs one task at a time, so each action is the code between  *)
(* two awaits of one call of a handler, or one UI handler.                 *)
(***************************************************************************)
EXTENDS Integers, Sequences, FiniteSets, TLC

\* ------------------------------------------------------------------ bounds
MaxRecords == 3          \* longest list imported, when there is one import and one run
MaxImports == 2          \* imports of a list (the first one and re-imports)
MaxReimportRecords == 2  \* longest list imported, when lists are re-imported
MaxRuns == 2             \* startProcessing calls that enter the batch loop
MaxMessages == 2         \* longest list handed to handleBulkSend
MaxSends == 2            \* handleSend calls in one behaviour
MaxRerunRecords == 2     \* longest list imported, when a run is followed by another
MaxRerunBatchSize == 1   \* largest batchSize tried, when a run is followed by another
MaxRerunRetries == 1     \* largest maxRetries tried, when a run is followed by another
MaxBatchSize == 2    \* largest filterSettings.batchSize tried
MaxMaxRetries == 2   \* largest filterSettings.maxRetries tried
MaxExports == 2      \* exports of the results
MaxFairRecords == 2  \* longest list imported, when termination is checked
MaxCallsCounted == MaxMaxRetries + 2  \* the calls for one batch are counted up to here

\* ------------------------------------------------------------------ values
Undefined == "undefined"
Null == "null"
\* abortControllerRef.current === null; a controller is named by the run that made it
NoController == 0

\* The raw strings an import may hold: two international numbers, the national
\* spelling of the first one, and a string that is no number.
RawNumbers == {"+221A", "0A", "+221B", "x"}

\* A valid international number of a numbering plan that belongs to no country
\* (such as +870, Inmarsat): libphonenumber-js gives it no country.
NonGeographicNumbers == {"+870N"}

\* A string that is no number, under a release of libphonenumber-js whose
\* parsePhoneNumber returns undefined for it and does not throw.
UnparsedNumbers == {"y"}
CountryCodes == {"SN", "CG"}

RunIds == 1..MaxRuns

\* ------------------------------------------------------------- normalizer
\* number.startsWith('+')
StartsWithPlus(number) == number \in {"+221A", "+221B", "+870N"}

\* libphonenumber-js parsePhoneNumber(number[, countryCode]) on RawNumbers:
\* kind "thrown" is a ParseError, kind "none" is undefined, otherwise a
\* PhoneNumber with its isValid(), format('E.164') and country.
ParsePhoneNumber(number, countryCode) ==
    CASE number = "+221A" -> [kind |-> "number", valid |-> TRUE, e164 |-> "+221A", country |-> "SN", message |-> Undefined]
      [] number = "+221B" -> [kind |-> "number", valid |-> TRUE, e164 |-> "+221B", country |-> "SN", message |-> Undefined]
      [] number = "+870N" -> [kind |-> "number", valid |-> TRUE, e164 |-> "+870N", country |-> Undefined, message |-> Undefined]
      [] number = "0A" /\ countryCode = "SN" ->
            [kind |-> "number", valid |-> TRUE, e164 |-> "+221A", country |-> "SN", message |-> Undefined]
      [] number = "0A" /\ countryCode # "SN" ->
            [kind |-> "number", valid |-> FALSE, e164 |-> "+2420A", country |-> Undefined, message |-> Undefined]
      [] number = "y" -> [kind |-> "none", valid |-> FALSE, e164 |-> Undefined, country |-> Undefined, message |-> Undefined]
      [] OTHER -> [kind |-> "thrown", valid |-> FALSE, e164 |-> Undefined, country |-> Undefined, message |-> "NOT_A_NUMBER"]

validatePhoneNumber(number, countryCode) ==
    LET phoneNumber == IF StartsWithPlus(number)
                       THEN ParsePhoneNumber(number, Undefined)
                       ELSE ParsePhoneNumber(number, countryCode)
    IN  IF phoneNumber.kind = "thrown"
        THEN [isValid |-> FALSE, normalized |-> Undefined, country |-> Undefined, error |-> phoneNumber.message]
        ELSE IF phoneNumber.kind = "none"
        THEN [isValid |-> FALSE, normalized |-> Undefined, country |-> Undefined, error |-> "Invalid phone number format"]
        ELSE IF ~phoneNumber.valid
        THEN [isValid |-> FALSE, normalized |-> Undefined, country |-> Undefined, error |-> "Phone number is not valid"]
        ELSE [isValid |-> TRUE, normalized |-> phoneNumber.e164,
              country |-> IF phoneNumber.country # Undefined THEN phoneNumber.country ELSE countryCode,
              error |-> Undefined]

\* lines 163-176: the record made of one input string
SeedRecord(number, countryCode) ==
    LET validation == validatePhoneNumber(number, countryCode)
    IN  [number |-> number,
         normalizedNumber |-> validation.normalized,
         country |-> validation.country,
         isValid |-> validation.isValid,
         hasWhatsApp |-> Null,
         status |-> IF validation.isValid THEN "pending" ELSE "error",
         error |-> validation.error]

\* the seeding with the strings that do not normalize left out
processPhoneNumbersValidOnly(phoneNumbers, countryCode) ==
    SelectSeq([k \in 1..Len(phoneNumbers) |-> SeedRecord(phoneNumbers[k], countryCode)],
              LAMBDA n : n.isValid)

\* lines 163-178: one record per input string, in input order
processPhoneNumbers(phoneNumbers, countryCode) ==
    [k \in 1..Len(phoneNumbers) |-> SeedRecord(phoneNumbers[k], countryCode)]

\* ------------------------------------------------------------------ state
VARIABLES
    numbers,          \* useState<PhoneNumber[]>: the record store
    ui,               \* isProcessing, progress, error, validatedCount, totalValidNumbers
    abortControllerRef, \* useRef<AbortController | null>: NoController or the id of a controller
    aborted,          \* the controllers on which abort() was called
    cache,            \* table whatsapp_valid_numbers: the phone_number keys present
    runs,             \* one entry per startProcessing call that entered its loop
    hist,             \* history of each run (not program state)
    imports,          \* how many lists were imported so far (not program state)
    tdz,              \* TRUE: the shadowing const of line 392 throws at line 290
    downloads,        \* the files exportResults handed to the browser, oldest first
    exportedFrom,     \* the record store at the last export (not program state)
    imported,         \* the list of strings of the last import (not program state)
    whatsApp          \* the state of the WhatsApp page (WhatsApp.tsx)

vars == <<numbers, ui, abortControllerRef, aborted, cache, runs, hist, imports, tdz,
          downloads, exportedFrom, imported, whatsApp>>


\* ------------------------------------------------------------ record store
Min(a, b) == IF a < b THEN a ELSE b

\* JavaScript truthiness of the values a hasWhatsApp / wa_id field takes
Truthy(v) == v \notin {Null, Undefined, "false", ""}

\* a || b
OrElse(a, b) == IF Truthy(a) THEN a ELSE b

\* Array.prototype.findIndex, 1-based; 0 stands for -1
FindIndex(arr, Test(_)) ==
    LET hits == {k \in 1..Len(arr) : Test(arr[k])}
    IN  IF hits = {} THEN 0 ELSE CHOOSE k \in hits : \A m \in hits : k <= m

\* lines 308 and 333: n.number === batchItem.number
MatchesBatchItem(n, batchItem) == n.number = batchItem.number

\* lines 361-363: n.normalizedNumber === result.input || n.number === result.input
MatchesResult(n, result) == n.normalizedNumber = result.input \/ n.number = result.input

\* lines 305-314: the updater that moves a batch to 'checking'
RECURSIVE SetChecking(_, _)
SetChecking(prev, batch) ==
    IF batch = <<>> THEN prev
    ELSE LET batchItem == Head(batch)
             index == FindIndex(prev, LAMBDA n : MatchesBatchItem(n, batchItem))
             updated == IF index # 0 THEN [prev EXCEPT ![index].status = "checking"] ELSE prev
         IN  SetChecking(updated, Tail(batch))

\* lines 330-343: the updater that marks a batch 'error' when the retries are used up
RECURSIVE MarkBatchError(_, _)
MarkBatchError(prev, batch) ==
    IF batch = <<>> THEN prev
    ELSE LET batchItem == Head(batch)
             index == FindIndex(prev, LAMBDA n : MatchesBatchItem(n, batchItem))
             updated == IF index # 0
                        THEN [prev EXCEPT ![index].status = "error",
                                          ![index].error = "Failed after maxRetries attempts"]
                        ELSE prev
         IN  MarkBatchError(updated, Tail(batch))

\* the test of line 366 without its second operand
ResultIsValidByStatus(result) == IF result.status = "valid" THEN "true" ELSE "false"

\* line 366: result.status === 'valid' && result.wa_id  (the value of the && expression)
ResultIsValid(result) == IF result.status = "valid" THEN result.wa_id ELSE "false"

\* lines 358-380: the updater that writes the results of a batch onto the records;
\* validCount is the run's counter, incremented inside the updater (line 375)
RECURSIVE Reconcile(_, _, _)
Reconcile(prev, batchResults, validCount) ==
    IF batchResults = <<>> THEN [numbers |-> prev, validCount |-> validCount]
    ELSE LET result == Head(batchResults)
             index == FindIndex(prev, LAMBDA n : MatchesResult(n, result))
             isValid == ResultIsValid(result)
             updated == IF index # 0
                        THEN [prev EXCEPT ![index].hasWhatsApp = isValid,
                                          ![index].status = "done",
                                          ![index].error = IF Truthy(isValid) THEN Undefined ELSE "Not on WhatsApp"]
                        ELSE prev
             count == IF index # 0 /\ Truthy(isValid) THEN validCount + 1 ELSE validCount
         IN  Reconcile(updated, Tail(batchResults), count)

\* Array.prototype.filter
Filter(arr, Test(_)) == SelectSeq(arr, Test)

\* line 275: the snapshot a run works on
EligibleNumbers(nums) == Filter(nums, LAMBDA n : n.isValid /\ n.status # "error")

\* the places of the records of line 275 in the store, in order
EligibleIndices(nums) ==
    Filter([k \in 1..Len(nums) |-> k], LAMBDA k : nums[k].isValid /\ nums[k].status # "error")

\* line 392: what the end of the run upserts, read from the `numbers` of the render
\* in which startProcessing was created
NumbersToSave(nums) ==
    LET found == Filter(nums, LAMBDA n : n.hasWhatsApp = "true")
    IN  [k \in 1..Len(found) |-> OrElse(found[k].normalizedNumber, found[k].number)]

\* line 302: validNumbers.slice(i, i + batchSize), i counted from 0
Slice(arr, i, j) == SubSeq(arr, i + 1, Min(j, Len(arr)))

\* line 322: batch.map(n => n.normalizedNumber || n.number)
PhoneNumbersToCheck(batch) ==
    [k \in 1..Len(batch) |-> OrElse(batch[k].normalizedNumber, batch[k].number)]

\* lines 259 and 397: number.replace('+', '')
StripPlus(number) ==
    CASE number = "+221A" -> "221A"
      [] number = "+221B" -> "221B"
      [] number = "+870N" -> "870N"
      [] OTHER -> number

\* lines 347 and 385: Math.round((processedCount / totalNumbers) * 100)
Progress(processedCount, totalNumbers) == (200 * processedCount + totalNumbers) \div (2 * totalNumbers)


\* ------------------------------------------------------------------- runs
\* filterSettings (lines 65-72) is read at two places: defaultCountryCode by an
\* import (line 165), the rest by the startProcessing and checkWhatsAppNumbers of
\* the render in which the start button is pressed. The value the settings panel
\* (lines 543-603) holds at that moment is the input of Seed and of Start. The
\* panel keeps maxRetries and batchSize away from 0 (parseInt(...) || 3, || 20);
\* the two delays are durations and play no part in the order of steps.
Settings(maxBatchSize, maxMaxRetries) ==
    [batchSize : 1..maxBatchSize, maxRetries : 1..maxMaxRetries, useMetaApi : BOOLEAN]

SettingsSpace == Settings(MaxBatchSize, MaxMaxRetries)

NoSettings == [batchSize |-> 1, maxRetries |-> 1, useMetaApi |-> FALSE]

\* The locals of one startProcessing call. pc is the await the call is parked on:
\*   "fetch"      line 202, the request to the verification endpoint
\*   "lookup"     line 234, the cache query of simulateWhatsAppCheck
\*   "retryWait"  lines 349 and 353, the retryDelay timer after a failed attempt
\*   "delay"      line 388, the delayBetweenBatches timer
IdleRun ==
    [pc |-> "idle", validNumbers |-> <<>>, toSave |-> <<>>, settings |-> NoSettings,
     i |-> 0, attemptCount |-> 0, processedCount |-> 0, validCount |-> 0,
     request |-> <<>>, signal |-> NoController]

\* What is remembered of a run while it is active:
\*   indices    the places in `numbers` of the records of the snapshot, at the start
\*   cancelPc   where the run was parked when handleCancel was called ("none": never)
\*   cancelI    the run's i at that moment
\*   calls      checkWhatsAppNumbers calls made for the current batch (counted up
\*              to MaxCallsCounted)
\*   last       how the last call for the current batch came back
\*   exhausted  the current batch was marked 'error' after its last attempt
\*   batches    the batches formed so far: where each starts in the snapshot
\*              (counted from 0) and how many records it holds
\*   results    the batchResults the last call for the current batch returned
IdleHist ==
    [indices |-> <<>>, cancelPc |-> "none", cancelI |-> 0, calls |-> 0,
     last |-> "none", exhausted |-> FALSE, batches |-> <<>>, results |-> <<>>]

InitialUi ==
    [isProcessing |-> FALSE, progress |-> 0, error |-> Null,
     validatedCount |-> 0, totalValidNumbers |-> 0]

Active(r) == runs[r].pc \notin {"idle", "done"}

\* line 302
BatchOf(run) == Slice(run.validNumbers, run.i, run.i + run.settings.batchSize)

\* line 298: abortControllerRef.current?.signal.aborted
AbortObserved(ref, abortedSet) == ref # NoController /\ ref \in abortedSet

\* lines 195-210: checkWhatsAppNumbers up to its first await
CallCheck(run, ref) ==
    LET phoneNumbers == PhoneNumbersToCheck(BatchOf(run))
    IN  IF ~run.settings.useMetaApi
        THEN [run EXCEPT !.pc = "lookup", !.request = phoneNumbers, !.signal = NoController]
        ELSE [run EXCEPT !.pc = "fetch", !.request = phoneNumbers, !.signal = ref]

\* the retry loop with <= for <: one attempt more than maxRetries
RetryLoopRunsOnceMore(run) == run.attemptCount <= run.settings.maxRetries

\* line 320: the test of the retry loop
RetryLoopRuns(run) == run.attemptCount < run.settings.maxRetries

\* lines 302-323: a batch is formed, moved to 'checking' and its first attempt made
EnterBatch(run, nums, ref) ==
    LET fresh == [run EXCEPT !.attemptCount = 0]
    IN  [run |-> IF RetryLoopRuns(fresh) THEN CallCheck(fresh, ref)
                 ELSE [fresh EXCEPT !.pc = "delay", !.request = <<>>, !.signal = NoController],
         numbers |-> SetChecking(nums, BatchOf(run))]

\* lines 391-412: the end of a run once the loop is left
FinishedRun(run) == [IdleRun EXCEPT !.pc = "done"]

UpsertedCache(run, table) == table \cup {run.toSave[k] : k \in 1..Len(run.toSave)}


\* ----------------------------------------------------- verification results
\* What the verification endpoint answers for one requested number: an entry
\* 'valid' with a wa_id, an entry 'valid' without one, an entry 'invalid', or no entry
ExternalOutcomes == {"valid", "validNoId", "invalid", "missing"}

\* data.results of line 218: the entries the endpoint returned, in request order
RECURSIVE ExternalResults(_, _)
ExternalResults(phoneNumbers, outcome) ==
    IF phoneNumbers = <<>> THEN <<>>
    ELSE LET phone == Head(phoneNumbers)
             o == outcome[Len(outcome) - Len(phoneNumbers) + 1]
             entry == IF o = "valid"
                      THEN <<[input |-> phone, status |-> "valid", wa_id |-> StripPlus(phone)]>>
                      ELSE IF o = "validNoId"
                      THEN <<[input |-> phone, status |-> "valid", wa_id |-> Undefined]>>
                      ELSE IF o = "invalid"
                      THEN <<[input |-> phone, status |-> "invalid", wa_id |-> Undefined]>>
                      ELSE <<>>
         IN  entry \o ExternalResults(Tail(phoneNumbers), outcome)

\* lines 244-261: validNumbersMap holds the rows the cache query returned, draw[k]
\* is Math.random() < 0.7 for the k-th number
SimulatedResults(phoneNumbers, validNumbersMap, draw) ==
    [k \in 1..Len(phoneNumbers) |->
        LET phone == phoneNumbers[k]
        IN  IF phone \in validNumbersMap
            THEN [input |-> phone, status |-> "valid", wa_id |-> StripPlus(phone)]
            ELSE [input |-> phone,
                  status |-> IF draw[k] THEN "valid" ELSE "invalid",
                  wa_id |-> IF draw[k] THEN StripPlus(phone) ELSE Undefined]]

Range(seq) == {seq[k] : k \in 1..Len(seq)}

\* ---------------------------------------------------------- WhatsApp page
\* WhatsApp.tsx. The page has one abortControllerRef (line 32) and one `sending`
\* flag (line 28) for handleSend and handleBulkSend. A controller is named by
\* the call that made it: the k-th handleSend call makes controller k, the
\* handleBulkSend call makes BulkController. A message id is the number of the
\* handleSend call that got it; NoMessageId is null.
BulkController == MaxSends + 1
NoMessageId == 0

\* sendResult (line 31): kind "none" is null, "final" the 'Sent x/total' text of
\* line 423, "success" and "error" the other texts
NoResult == [kind |-> "none", sent |-> 0, total |-> 0, failed |-> 0]
ResultOf(kind) == [NoResult EXCEPT !.kind = kind]

\* The locals of the handleBulkSend call. pc is the await it is parked on:
\*   "delay"  line 376, the sendingSpeed timer before a request
\*   "fetch"  line 386, the request for item i
IdleBulk ==
    [pc |-> "idle", i |-> 0, total |-> 0, successCount |-> 0, failedCount |-> 0,
     signal |-> NoController]

\* The handleSend call under way: parked on the request of line 266 ("fetch")
IdleSend == [pc |-> "idle", signal |-> NoController, id |-> NoMessageId]

\* What is remembered of the page's history (not program state):
\*   cancelPc   where the handleBulkSend call was parked when handleCancel was
\*              called ("none": never)
\*   requests   requests the handleBulkSend call has issued
\*   visited    turns of its loop that the call has begun
IdleLog == [cancelPc |-> "none", requests |-> 0, visited |-> 0]

\* The state of the page that the send handlers and the delivery tracking read
\* and write (the progress bar left aside):
\*   sending, ref (abortControllerRef.current), aborted (controllers on which
\*   abort() was called), sendResult, deliveryStatus, messageId,
\*   bulk and send (the calls under way), sends (handleSend calls so far),
\*   checks (message ids for which a checkMessageStatus call is in flight)
InitialWhatsApp ==
    [sending |-> FALSE, ref |-> NoController, aborted |-> {}, sendResult |-> NoResult,
     deliveryStatus |-> Null, messageId |-> NoMessageId,
     bulk |-> IdleBulk, send |-> IdleSend, sends |-> 0, checks |-> {}, log |-> IdleLog]

\* ---------------------------------------------------------------- actions
Init ==
    /\ numbers = <<>>
    /\ ui = InitialUi
    /\ abortControllerRef = NoController
    /\ aborted = {}
    /\ cache \in SUBSET {"+221A"}
    /\ runs = [r \in RunIds |-> IdleRun]
    /\ hist = [r \in RunIds |-> IdleHist]
    /\ imports = 0
    /\ tdz \in BOOLEAN
    /\ downloads = <<>>
    /\ exportedFrom = <<>>
    /\ imported = <<>>
    /\ whatsApp = InitialWhatsApp

\* lines 120-180: an import; the file input is disabled while isProcessing (line 510)
Seed(phoneNumbers, defaultCountryCode) ==
    /\ ~ui.isProcessing
    /\ imports' = imports + 1
    /\ numbers' = processPhoneNumbers(phoneNumbers, defaultCountryCode)
    /\ imported' = phoneNumbers
    /\ UNCHANGED <<ui, abortControllerRef, aborted, cache, runs, hist, tdz, downloads, exportedFrom, whatsApp>>

\* line 705: the start button is enabled
StartEnabled == ~ui.isProcessing /\ \E k \in 1..Len(numbers) : numbers[k].isValid

\* the refused start with the resets of lines 282-286 made before the test
StartNoValidResets ==
    /\ StartEnabled
    /\ EligibleNumbers(numbers) = <<>>
    /\ ui' = [InitialUi EXCEPT !.error = "No valid phone numbers to process"]
    /\ UNCHANGED <<numbers, abortControllerRef, aborted, cache, runs, hist, imports, tdz, downloads, exportedFrom, imported, whatsApp>>

\* lines 273-280: nothing to process
StartNoValid ==
    /\ StartEnabled
    /\ EligibleNumbers(numbers) = <<>>
    /\ ui' = [ui EXCEPT !.error = "No valid phone numbers to process"]
    /\ UNCHANGED <<numbers, abortControllerRef, aborted, cache, runs, hist, imports, tdz, downloads, exportedFrom, imported, whatsApp>>

\* lines 282-290 and 406-412: line 290 reads the validNumbers that line 392
\* declares later in the same block, the read throws, the catch reports it and the
\* finally block ends the run before any batch is formed
StartThrows ==
    /\ tdz
    /\ StartEnabled
    /\ EligibleNumbers(numbers) # <<>>
    /\ ui' = [InitialUi EXCEPT !.error = "Cannot access 'validNumbers' before initialization"]
    /\ abortControllerRef' = NoController
    /\ UNCHANGED <<numbers, aborted, cache, runs, hist, imports, tdz, downloads, exportedFrom, imported, whatsApp>>

\* lines 273-323 with validNumbers of line 290-302 bound to the snapshot of line
\* 275: the run starts, forms its first batch and makes the first attempt
Start(r, settings) ==
    /\ ~tdz
    /\ StartEnabled
    /\ runs[r].pc = "idle" /\ \A q \in RunIds : q < r => runs[q].pc # "idle"
    /\ LET eligible == EligibleNumbers(numbers)
           run0 == [IdleRun EXCEPT
                      !.validNumbers = [k \in 1..Len(eligible) |->
                                          [number |-> eligible[k].number,
                                           normalizedNumber |-> eligible[k].normalizedNumber]],
                      !.toSave = NumbersToSave(numbers),
                      !.settings = settings]
           entered == EnterBatch(run0, numbers, r)
       IN  /\ eligible # <<>>
           /\ runs' = [runs EXCEPT ![r] = entered.run]
           /\ numbers' = entered.numbers
           /\ hist' = [hist EXCEPT ![r] = [IdleHist EXCEPT
                          !.indices = EligibleIndices(numbers),
                          !.calls = IF entered.run.pc = "delay" THEN 0 ELSE 1,
                          !.batches = <<[from |-> 0, size |-> Len(BatchOf(run0))]>>]]
    /\ ui' = [InitialUi EXCEPT !.isProcessing = TRUE]
    /\ abortControllerRef' = r
    /\ UNCHANGED <<aborted, cache, imports, tdz, downloads, exportedFrom, imported, whatsApp>>

\* lines 436-442; the cancel button is shown while isProcessing (line 694)
handleCancel ==
    /\ ui.isProcessing
    /\ aborted' = IF abortControllerRef # NoController THEN aborted \cup {abortControllerRef} ELSE aborted
    /\ abortControllerRef' = NoController
    /\ ui' = [ui EXCEPT !.isProcessing = FALSE]
    /\ hist' = [r \in RunIds |->
                  IF Active(r) /\ hist[r].cancelPc = "none"
                  THEN [hist[r] EXCEPT !.cancelPc = runs[r].pc, !.cancelI = runs[r].i]
                  ELSE hist[r]]
    /\ UNCHANGED <<numbers, cache, runs, imports, tdz, downloads, exportedFrom, imported, whatsApp>>

\* lines 358-384: validCount++ (line 375) is inside the updater given to
\* setNumbers, and React runs an updater either at once, inside the setNumbers
\* call, or with the next render, after line 384 has read validCount. What
\* setTotalValidNumbers(validCount) is given is the count after the batch or the
\* count before it.
ShownValidCounts(before, after) == {before, after}

\* the counter moved by batchSize, whatever the length of the batch
ProcessedAfterFullBatch(run) == run.processedCount + run.settings.batchSize

\* lines 345 and 382: processedCount += batch.length
ProcessedAfter(run) == run.processedCount + Len(BatchOf(run))

\* lines 324 and 357-388: the attempt returned batchResults; they are written onto
\* the records, the counters move and the run waits delayBetweenBatches
Succeed(r, batchResults, how) ==
    LET run == runs[r]
        rec == Reconcile(numbers, batchResults, run.validCount)
        processed == ProcessedAfter(run)
    IN  /\ numbers' = rec.numbers
        /\ runs' = [runs EXCEPT ![r] = [run EXCEPT !.pc = "delay", !.request = <<>>, !.signal = NoController,
                                                   !.validCount = rec.validCount,
                                                   !.processedCount = processed]]
        /\ \E shown \in ShownValidCounts(run.validCount, rec.validCount) :
              ui' = [ui EXCEPT !.validatedCount = processed,
                               !.totalValidNumbers = shown,
                               !.progress = Progress(processed, Len(run.validNumbers))]
        /\ hist' = [hist EXCEPT ![r].last = how, ![r].results = batchResults]
        /\ UNCHANGED <<abortControllerRef, aborted, cache, imports, tdz, downloads, exportedFrom, imported, whatsApp>>

\* the catch block without its attemptCount++
NextAttemptCountStuck(run) == run.attemptCount

\* line 326: attemptCount++
NextAttemptCount(run) == run.attemptCount + 1

\* lines 325-354: the attempt threw
Fail(r) ==
    LET run == runs[r]
        attemptCount == NextAttemptCount(run)
        processed == ProcessedAfter(run)
    IN  IF attemptCount >= run.settings.maxRetries
        THEN /\ numbers' = MarkBatchError(numbers, BatchOf(run))
             /\ runs' = [runs EXCEPT ![r] = [run EXCEPT !.pc = "retryWait", !.request = <<>>, !.signal = NoController,
                                                        !.attemptCount = attemptCount,
                                                        !.processedCount = processed]]
             /\ ui' = [ui EXCEPT !.validatedCount = processed,
                                 !.progress = Progress(processed, Len(run.validNumbers))]
             /\ hist' = [hist EXCEPT ![r].exhausted = TRUE, ![r].last = "threw"]
             /\ UNCHANGED <<abortControllerRef, aborted, cache, imports, tdz, downloads, exportedFrom, imported, whatsApp>>
        ELSE /\ runs' = [runs EXCEPT ![r] = [run EXCEPT !.pc = "retryWait", !.request = <<>>, !.signal = NoController,
                                                        !.attemptCount = attemptCount]]
             /\ hist' = [hist EXCEPT ![r].last = "threw"]
             /\ UNCHANGED <<numbers, ui, abortControllerRef, aborted, cache, imports, tdz, downloads, exportedFrom, imported, whatsApp>>

SignalAborted(run) == run.signal # NoController /\ run.signal \in aborted

\* the aborted request rethrown to the retry loop
FetchAbortedThrows(r) ==
    /\ runs[r].pc = "fetch"
    /\ SignalAborted(runs[r])
    /\ Fail(r)

\* lines 219-223: the request was aborted, checkWhatsAppNumbers returns []
FetchAborted(r) ==
    /\ runs[r].pc = "fetch"
    /\ SignalAborted(runs[r])
    /\ Succeed(r, <<>>, "aborted")

\* lines 212-218: the endpoint answered
FetchReturns(r) ==
    /\ runs[r].pc = "fetch"
    /\ ~SignalAborted(runs[r])
    /\ \E outcome \in [1..Len(runs[r].request) -> ExternalOutcomes] :
          Succeed(r, ExternalResults(runs[r].request, outcome),
                  IF \E k \in DOMAIN outcome : outcome[k] = "missing" THEN "missing" ELSE "complete")

\* lines 212-215 and 225-227: the request failed, the simulation takes over
FetchFails(r) ==
    /\ runs[r].pc = "fetch"
    /\ ~SignalAborted(runs[r])
    /\ runs' = [runs EXCEPT ![r].pc = "lookup", ![r].signal = NoController]
    /\ hist' = [hist EXCEPT ![r].last = "fetchFailed"]
    /\ UNCHANGED <<numbers, ui, abortControllerRef, aborted, cache, imports, tdz, downloads, exportedFrom, imported, whatsApp>>

\* lines 234-263: the cache query answered (without rows when it reported an error)
LookupReturns(r) ==
    /\ runs[r].pc = "lookup"
    /\ \E validNumbersMap \in {cache \cap Range(runs[r].request), {}} :
       \E draw \in [1..Len(runs[r].request) -> BOOLEAN] :
          Succeed(r, SimulatedResults(runs[r].request, validNumbersMap, draw), "complete")

\* lines 264-270: the cache query threw, checkWhatsAppNumbers rejects
LookupThrows(r) ==
    /\ runs[r].pc = "lookup"
    /\ Fail(r)

\* lines 349-353, 320-323 and 357: the retryDelay is over; the retry loop makes
\* the next attempt, or is left with batchSuccess false and the run waits
\* delayBetweenBatches (line 388)
RetryTimer(r) ==
    /\ runs[r].pc = "retryWait"
    /\ runs' = [runs EXCEPT ![r] = IF RetryLoopRuns(runs[r])
                                   THEN CallCheck(runs[r], abortControllerRef)
                                   ELSE [runs[r] EXCEPT !.pc = "delay"]]
    /\ hist' = [hist EXCEPT ![r].calls = IF RetryLoopRuns(runs[r]) THEN Min(@ + 1, MaxCallsCounted) ELSE @,
                            ![r].last = "none"]
    /\ UNCHANGED <<numbers, ui, abortControllerRef, aborted, cache, imports, tdz, downloads, exportedFrom, imported, whatsApp>>

\* the loop step with one record skipped between two batches
NextIndexSkips(run) == run.i + run.settings.batchSize + 1

\* line 297: i += batchSize
NextIndex(run) == run.i + run.settings.batchSize

\* the loop test with <= for <: one more turn when batchSize divides the length
LoopContinuesInclusive(run) ==
    /\ NextIndex(run) <= Len(run.validNumbers)
    /\ ~AbortObserved(abortControllerRef, aborted)

\* line 297-299: the loop goes on to another batch
LoopContinues(run) ==
    /\ NextIndex(run) < Len(run.validNumbers)
    /\ ~AbortObserved(abortControllerRef, aborted)

\* lines 388 and 297-323: the delay is over, the next batch is formed
NextBatch(r) ==
    /\ runs[r].pc = "delay"
    /\ LoopContinues(runs[r])
    /\ LET entered == EnterBatch([runs[r] EXCEPT !.i = NextIndex(runs[r])], numbers, abortControllerRef)
       IN  /\ runs' = [runs EXCEPT ![r] = entered.run]
           /\ numbers' = entered.numbers
           /\ hist' = [hist EXCEPT ![r].calls = IF entered.run.pc = "delay" THEN 0 ELSE 1,
                                   ![r].last = "none",
                                   ![r].exhausted = FALSE,
                                   ![r].results = <<>>,
                                   ![r].batches = Append(@, [from |-> entered.run.i,
                                                             size |-> Len(BatchOf(entered.run))])]
    /\ UNCHANGED <<ui, abortControllerRef, aborted, cache, imports, tdz, downloads, exportedFrom, imported, whatsApp>>

\* lines 388-412: the delay is over and the loop is left
RunEnds(r) ==
    /\ runs[r].pc = "delay"
    /\ ~LoopContinues(runs[r])
    /\ runs' = [runs EXCEPT ![r] = FinishedRun(runs[r])]
    /\ cache' = UpsertedCache(runs[r], cache)
    /\ ui' = [ui EXCEPT !.isProcessing = FALSE]
    /\ abortControllerRef' = NoController
    /\ hist' = [hist EXCEPT ![r] = IdleHist]
    /\ UNCHANGED <<numbers, aborted, imports, tdz, downloads, exportedFrom, imported, whatsApp>>

\* the export with the test of line 392 (hasWhatsApp === true) for the truthiness
\* test of line 417
WhatsAppNumbersStrict(nums) ==
    LET found == Filter(nums, LAMBDA n : n.hasWhatsApp = "true")
    IN  [k \in 1..Len(found) |-> OrElse(found[k].normalizedNumber, found[k].number)]

\* the export with a buffer that is kept from one export to the next
WhatsAppNumbersAppended(nums) ==
    LET found == Filter(nums, LAMBDA n : Truthy(n.hasWhatsApp))
    IN  (IF downloads = <<>> THEN <<>> ELSE downloads[Len(downloads)])
        \o [k \in 1..Len(found) |-> OrElse(found[k].normalizedNumber, found[k].number)]

\* lines 416-419: the lines of the exported file. join('\n') makes one text of
\* them, a line break between two numbers; no number holds a line break, so the
\* text is kept as its sequence of lines.
WhatsAppNumbers(nums) ==
    LET found == Filter(nums, LAMBDA n : Truthy(n.hasWhatsApp))
    IN  [k \in 1..Len(found) |-> OrElse(found[k].normalizedNumber, found[k].number)]

\* line 522: the export button is enabled
ExportEnabled == ~ui.isProcessing /\ \E k \in 1..Len(numbers) : Truthy(numbers[k].hasWhatsApp)

\* lines 415-430: the file is built from the records and handed to the browser
exportResults ==
    /\ ExportEnabled
    /\ Len(downloads) < MaxExports
    /\ downloads' = Append(downloads, WhatsAppNumbers(numbers))
    /\ exportedFrom' = numbers
    /\ UNCHANGED <<numbers, ui, abortControllerRef, aborted, cache, runs, hist, imports, tdz, imported, whatsApp>>

\* the lists of at most n raw strings
Lists(n) == UNION {[1..m -> RawNumbers] : m \in 1..n}

\* the steps of the runs that are under way
RunStep ==
    \/ \E r \in RunIds : FetchAborted(r)
    \/ \E r \in RunIds : FetchReturns(r)
    \/ \E r \in RunIds : FetchFails(r)
    \/ \E r \in RunIds : LookupReturns(r)
    \/ \E r \in RunIds : LookupThrows(r)
    \/ \E r \in RunIds : RetryTimer(r)
    \/ \E r \in RunIds : NextBatch(r)
    \/ \E r \in RunIds : RunEnds(r)

\* One import of a list of up to MaxRecords strings, then one run.
FirstImport ==
    /\ imports = 0
    /\ \E phoneNumbers \in Lists(MaxRecords), defaultCountryCode \in CountryCodes :
          Seed(phoneNumbers, defaultCountryCode)

FirstStart == \E settings \in SettingsSpace : Start(1, settings)

Next ==
    \/ FirstImport
    \/ StartNoValid
    \/ StartThrows
    \/ FirstStart
    \/ handleCancel
    \/ RunStep

Spec == Init /\ [][Next]_vars

\* Up to MaxImports imports of lists of up to MaxReimportRecords strings, one run.
Import ==
    /\ imports < MaxImports
    /\ \E phoneNumbers \in Lists(MaxReimportRecords), defaultCountryCode \in CountryCodes :
          Seed(phoneNumbers, defaultCountryCode)

NextReimport ==
    \/ Import
    \/ StartNoValid
    \/ StartThrows
    \/ FirstStart
    \/ handleCancel
    \/ RunStep

SpecReimport == Init /\ [][NextReimport]_vars

\* One import of a list of up to MaxRerunRecords strings.
ShortImport ==
    /\ imports = 0
    /\ \E phoneNumbers \in Lists(MaxRerunRecords), defaultCountryCode \in CountryCodes :
          Seed(phoneNumbers, defaultCountryCode)

\* the strings of the lists imported when a run is followed by another
RerunRawNumbers == {"+221A", "0A", "x"}

\* One import of a list of up to MaxRerunRecords strings of RerunRawNumbers, up
\* to MaxRuns runs with batchSize up to MaxRerunBatchSize, maxRetries up to
\* MaxRerunRetries and useMetaApi on (its initial value, line 70).
RerunImport ==
    /\ imports = 0
    /\ \E phoneNumbers \in UNION {[1..m -> RerunRawNumbers] : m \in 1..MaxRerunRecords},
          defaultCountryCode \in CountryCodes :
          Seed(phoneNumbers, defaultCountryCode)

RerunSettings == {settings \in Settings(MaxRerunBatchSize, MaxRerunRetries) : settings.useMetaApi}

AnyStart == \E r \in RunIds, settings \in RerunSettings : Start(r, settings)

NextRerun ==
    \/ RerunImport
    \/ StartNoValid
    \/ StartThrows
    \/ AnyStart
    \/ handleCancel
    \/ RunStep

SpecRerun == Init /\ [][NextRerun]_vars

\* One import of a list of up to MaxRerunRecords strings, one run, and exports of
\* the results (also while a cancelled run is still writing them).
NextExport ==
    \/ ShortImport
    \/ StartNoValid
    \/ StartThrows
    \/ FirstStart
    \/ handleCancel
    \/ RunStep
    \/ exportResults

SpecExport == Init /\ [][NextExport]_vars

\* lines 563 and 590: parseInt(e.target.value) || fallback, for a whole number
\* typed into the field. The min attribute of the field does not keep a typed
\* negative number out of the handler.
PanelValue(typed, fallback) == IF typed = 0 THEN fallback ELSE typed

\* numbers typed into the field of maxRetries
TypedMaxRetries == {-1, 0, 1, 2}

\* filterSettings after batchSize (1..MaxBatchSize), maxRetries and the checkbox
\* were set in the panel; 3 is the fallback of line 590
PanelSettings ==
    {[batchSize |-> b, maxRetries |-> PanelValue(t, 3), useMetaApi |-> u] :
        b \in 1..MaxBatchSize, t \in TypedMaxRetries, u \in BOOLEAN}

PanelStart == \E settings \in PanelSettings : Start(1, settings)

\* One import of a list of up to MaxRerunRecords strings and one run, started
\* with the settings the panel holds.
NextPanel ==
    \/ ShortImport
    \/ StartNoValid
    \/ StartThrows
    \/ PanelStart
    \/ handleCancel
    \/ RunStep

SpecPanel == Init /\ [][NextPanel]_vars

\* The steps of one run. Each is the return of an await: a timer fires, and a
\* request or a query comes back with a result or an error.
StepOf(r) ==
    \/ FetchAborted(r)
    \/ FetchReturns(r)
    \/ FetchFails(r)
    \/ LookupReturns(r)
    \/ LookupThrows(r)
    \/ RetryTimer(r)
    \/ NextBatch(r)
    \/ RunEnds(r)

\* Weak fairness of the steps of run r. A run is active exactly while it is
\* parked on an await, and each await has a step that returns it, so
\* ENABLED <<StepOf(r)>>_vars is Active(r): WF_vars(StepOf(r)) is written out
\* with Active(r) in the place of the ENABLED.
EveryAwaitReturns(r) == []<>(~Active(r)) \/ []<><<StepOf(r)>>_vars

\* One import of a list of up to MaxFairRecords strings and one run, every await
\* of which returns in the end.
FairImport ==
    /\ imports = 0
    /\ \E phoneNumbers \in Lists(MaxFairRecords), defaultCountryCode \in CountryCodes :
          Seed(phoneNumbers, defaultCountryCode)

NextFair ==
    \/ FairImport
    \/ StartNoValid
    \/ StartThrows
    \/ FirstStart
    \/ handleCancel
    \/ RunStep

SpecFair == Init /\ [][NextFair]_vars /\ \A r \in RunIds : EveryAwaitReturns(r)

\* Imports only, of lists of up to MaxReimportRecords strings that may hold a
\* number of a non-geographic plan, under each default country.
ImportAnyNumber ==
    /\ imports < MaxImports
    /\ \E phoneNumbers \in UNION {[1..m -> RawNumbers \cup NonGeographicNumbers \cup UnparsedNumbers] :
                                        m \in 1..MaxReimportRecords},
          defaultCountryCode \in CountryCodes :
          Seed(phoneNumbers, defaultCountryCode)

NextNormalize == ImportAnyNumber

SpecNormalize == Init /\ [][NextNormalize]_vars


\* ------------------------------------------------- WhatsApp page: actions
\* the state of the number filtering page, which the WhatsApp page leaves alone
FilteringVars ==
    <<numbers, ui, abortControllerRef, aborted, cache, runs, hist, imports, tdz,
      downloads, exportedFrom, imported>>

\* lines 418-426 and 445-448: the loop is left, the result text is put up and
\* the finally block runs
BulkFinal(w) ==
    [w EXCEPT !.sendResult = [kind |-> "final", sent |-> w.bulk.successCount,
                              total |-> w.bulk.total, failed |-> w.bulk.failedCount],
              !.sending = FALSE,
              !.ref = NoController,
              !.bulk = [IdleBulk EXCEPT !.pc = "done"]]

\* lines 367-376: the loop test and the abort test for item w.bulk.i, then the
\* sendingSpeed timer; or the loop is left
BulkLoop(w) ==
    IF w.bulk.i < w.bulk.total /\ ~AbortObserved(w.ref, w.aborted)
    THEN [w EXCEPT !.bulk.pc = "delay", !.bulk.signal = NoController,
                   !.log.visited = @ + 1]
    ELSE BulkFinal(w)

\* lines 338-376: handleBulkSend(data) with data.length = total, up to the
\* first timer, for a signed-in user with the Supabase client ready (the early
\* returns of lines 340-354 are not taken). The upload overlay that makes the
\* call can be closed while the call runs (line 1335), which uncovers the form
\* and its buttons.
handleBulkSend ==
    /\ whatsApp.bulk.pc = "idle"
    /\ \E total \in 1..MaxMessages :
          whatsApp' = BulkLoop([whatsApp EXCEPT !.sending = TRUE,
                                                !.sendResult = NoResult,
                                                !.ref = BulkController,
                                                !.bulk = [IdleBulk EXCEPT !.total = total]])
    /\ UNCHANGED FilteringVars

\* lines 376-401 and 409-415: the timer is over. The arguments of fetch read
\* abortControllerRef.current.signal (line 400): with a null ref that throws a
\* TypeError before any request is made, the inner catch counts the item as
\* failed and the loop goes on; otherwise the request is issued with the signal
\* of the controller the ref holds now.
BulkDelayEnds ==
    /\ whatsApp.bulk.pc = "delay"
    /\ whatsApp' =
          IF whatsApp.ref = NoController
          THEN BulkLoop([whatsApp EXCEPT !.bulk.failedCount = @ + 1, !.bulk.i = @ + 1])
          ELSE [whatsApp EXCEPT !.bulk.pc = "fetch", !.bulk.signal = whatsApp.ref,
                                !.log.requests = @ + 1]
    /\ UNCHANGED FilteringVars

\* lines 403-416: the request came back, with response.ok or without (or the
\* network failed)
BulkFetchReturns ==
    /\ whatsApp.bulk.pc = "fetch"
    /\ whatsApp.bulk.signal \notin whatsApp.aborted
    /\ \E ok \in BOOLEAN :
          whatsApp' = BulkLoop(IF ok
                               THEN [whatsApp EXCEPT !.bulk.successCount = @ + 1, !.bulk.i = @ + 1]
                               ELSE [whatsApp EXCEPT !.bulk.failedCount = @ + 1, !.bulk.i = @ + 1])
    /\ UNCHANGED FilteringVars

\* lines 409-412, 433-436 and 445-448: the request was aborted, the AbortError is
\* thrown on to the outer catch and the finally block runs
BulkFetchAborted ==
    /\ whatsApp.bulk.pc = "fetch"
    /\ whatsApp.bulk.signal \in whatsApp.aborted
    /\ whatsApp' = [whatsApp EXCEPT !.sending = FALSE, !.ref = NoController,
                                    !.bulk = [IdleBulk EXCEPT !.pc = "done"]]
    /\ UNCHANGED FilteringVars

\* lines 612-619; the cancel button is shown while sending (line 1131)
whatsAppHandleCancel ==
    /\ whatsApp.sending
    /\ whatsApp.ref # NoController
    /\ whatsApp' = [whatsApp EXCEPT
                      !.aborted = @ \cup {whatsApp.ref},
                      !.ref = NoController,
                      !.sending = FALSE,
                      !.log.cancelPc = IF whatsApp.bulk.pc \in {"delay", "fetch"} /\ @ = "none"
                                       THEN whatsApp.bulk.pc ELSE @]
    /\ UNCHANGED FilteringVars

\* lines 215-281: handleSend of a message without a file, up to the request, with
\* the form filled in, the user signed in and the Supabase client ready (the
\* early returns of lines 216-234 are not taken); the send button is shown while
\* not sending (lines 1131-1141)
handleSend ==
    /\ ~whatsApp.sending
    /\ whatsApp.send.pc # "fetch"
    /\ whatsApp.sends < MaxSends
    /\ LET id == whatsApp.sends + 1
       IN  whatsApp' = [whatsApp EXCEPT !.sends = id,
                                        !.sending = TRUE,
                                        !.sendResult = NoResult,
                                        !.deliveryStatus = "pending",
                                        !.messageId = NoMessageId,
                                        !.ref = id,
                                        !.send = [pc |-> "fetch", signal |-> id, id |-> id]]
    /\ UNCHANGED FilteringVars

\* lines 283-336: the request came back: with a message id in the response,
\* without one, or as an error (response not ok, network failure)
SendReturns ==
    /\ whatsApp.send.pc = "fetch"
    /\ whatsApp.send.signal \notin whatsApp.aborted
    /\ \E outcome \in {"id", "noId", "error"} :
          whatsApp' =
             IF outcome = "error"
             THEN [whatsApp EXCEPT !.sendResult = ResultOf("error"),
                                   !.deliveryStatus = "failed",
                                   !.sending = FALSE, !.ref = NoController,
                                   !.send.pc = "done"]
             ELSE [whatsApp EXCEPT !.messageId = IF outcome = "id" THEN whatsApp.send.id ELSE NoMessageId,
                                   !.deliveryStatus = "sent",
                                   !.sendResult = ResultOf("success"),
                                   !.sending = FALSE, !.ref = NoController,
                                   !.send.pc = "done"]
    /\ UNCHANGED FilteringVars

\* lines 319-322 and 332-335: the request was aborted
SendAborted ==
    /\ whatsApp.send.pc = "fetch"
    /\ whatsApp.send.signal \in whatsApp.aborted
    /\ whatsApp' = [whatsApp EXCEPT !.sending = FALSE, !.ref = NoController, !.send.pc = "done"]
    /\ UNCHANGED FilteringVars

\* lines 95-97 and 135-139: the effect keeps an interval while this holds and
\* clears it when messageId or deliveryStatus changes
PollingActive(w) == w.messageId # NoMessageId /\ w.deliveryStatus = "sent"

\* lines 98-101 and 135: the interval fires, checkMessageStatus(messageId) is
\* called
checkDeliveryStatus ==
    /\ PollingActive(whatsApp)
    /\ whatsApp.messageId \notin whatsApp.checks
    /\ whatsApp' = [whatsApp EXCEPT !.checks = @ \cup {whatsApp.messageId}]
    /\ UNCHANGED FilteringVars

\* lines 101-132: checkMessageStatus(id) came back with a status, or threw
CheckReturns ==
    /\ \E id \in whatsApp.checks, result \in {"delivered", "failed", "sent", "thrown"} :
          whatsApp' =
             IF result \in {"delivered", "failed"}
             THEN [whatsApp EXCEPT !.checks = @ \ {id},
                                   !.deliveryStatus = result,
                                   !.sendResult = ResultOf(IF result = "delivered" THEN "success" ELSE "error")]
             ELSE [whatsApp EXCEPT !.checks = @ \ {id}]
    /\ UNCHANGED FilteringVars

\* One handleBulkSend call of up to MaxMessages items, with cancels and up to
\* MaxSends handleSend calls.
NextBulk ==
    \/ handleBulkSend
    \/ BulkDelayEnds
    \/ BulkFetchReturns
    \/ BulkFetchAborted
    \/ whatsAppHandleCancel
    \/ handleSend
    \/ SendReturns
    \/ SendAborted

SpecBulk == Init /\ [][NextBulk]_vars

\* Up to MaxSends handleSend calls, with cancels and the polling of the delivery
\* status.
NextDelivery ==
    \/ handleSend
    \/ SendReturns
    \/ SendAborted
    \/ whatsAppHandleCancel
    \/ checkDeliveryStatus
    \/ CheckReturns

SpecDelivery == Init /\ [][NextDelivery]_vars


\* ------------------------------------------------------------------ claims
\* the places in the snapshot of the records of the batch a run is working on
BatchPositions(run) == (run.i + 1)..Min(run.i + run.settings.batchSize, Len(run.validNumbers))

\* C1: at most one run is active at a time: no state has two batch loops under way.
C1_SingleActiveRun == Cardinality({r \in RunIds : Active(r)}) <= 1

\* the records of a snapshot have different raw strings
DistinctNumbers(validNumbers) ==
    \A j, k \in 1..Len(validNumbers) : j # k => validNumbers[j].number # validNumbers[k].number

\* C2: when cancel is called after batch 1 of 3 is over and before batch 2 is
\* started (the run waits delayBetweenBatches), the run goes no further: it
\* stays at batch 1 and the records of batches 2 and 3 stay 'pending'. (Stated
\* for three records with different raw strings, in batches of one.)
C2_CancelAfterFirstOfThree ==
    \A r \in RunIds :
        ( /\ Active(r)
          /\ Len(runs[r].validNumbers) = 3 /\ runs[r].settings.batchSize = 1
          /\ DistinctNumbers(runs[r].validNumbers)
          /\ hist[r].cancelPc = "delay" /\ hist[r].cancelI = 0 )
        => /\ runs[r].i = 0
           /\ runs[r].pc = "delay"
           /\ \A j \in 2..3 : numbers[hist[r].indices[j]].status = "pending"

\* C3: when a run ends, no record is left 'checking'. (Stated for the end of a run
\* whose last verification call was aborted by cancel, no other run being under way.)
C3_NoCheckingAfterRun ==
    [][\A r \in RunIds :
          ( /\ Active(r) /\ runs'[r].pc = "done"
            /\ hist[r].last = "aborted"
            /\ \A q \in RunIds : q # r => ~Active(q) )
          => \A k \in 1..Len(numbers') : numbers'[k].status # "checking"]_vars

\* C4 as stated: a batch is marked 'error' after exactly maxRetries + 1 attempts.
C4_AttemptsAsClaimed ==
    \A r \in RunIds : hist[r].exhausted => hist[r].calls = runs[r].settings.maxRetries + 1

\* C4 as amended: with maxRetries >= 1, a batch all of whose attempts fail is marked
\* 'error' after exactly maxRetries attempts, and no attempt is made for it afterwards.
C4_Attempts ==
    \A r \in RunIds : hist[r].exhausted => hist[r].calls = runs[r].settings.maxRetries

\* a batch was marked 'error' after a first attempt and a retry
C4_Witness ==
    \E r \in RunIds :
        hist[r].exhausted /\ runs[r].settings.maxRetries = 2 /\ hist[r].calls = 2 /\ runs[r].pc = "delay"

\* C5: when a batch has used up its retries, every record of that batch is 'error'.
C5_ExhaustedBatchIsError ==
    \A r \in RunIds :
        hist[r].exhausted =>
            \A j \in BatchPositions(runs[r]) : numbers[hist[r].indices[j]].status = "error"

\* C6: a response that lacks an entry for a requested number counts as a failed
\* attempt: the run is then in the retry loop's wait, not past the batch.
C6_MissingEntryRetried ==
    \A r \in RunIds : hist[r].last = "missing" => runs[r].pc = "retryWait"

\* C7: no number that is in the presence cache is sent to the verification endpoint.
C7_CacheFirst ==
    \A r \in RunIds : runs[r].pc = "fetch" => Range(runs[r].request) \cap cache = {}

\* C8: a record that is not valid keeps status 'error' and no reachable value.
C8_InvalidKeepsError ==
    \A k \in 1..Len(numbers) :
        ~numbers[k].isValid => numbers[k].status = "error" /\ numbers[k].hasWhatsApp = Null

\* C9: hasWhatsApp is other than null only on a record whose status is 'done'.
C9_ReachableOnlyWhenDone ==
    \A k \in 1..Len(numbers) : numbers[k].hasWhatsApp # Null => numbers[k].status = "done"

\* C10: between imports a record's status changes only from 'pending' to 'checking'
\* and from 'checking' to 'done' or 'error'.
StatusEdges == {<<"pending", "checking">>, <<"checking", "done">>, <<"checking", "error">>}

C10_StatusMovesForward ==
    [][imports' = imports =>
          \A k \in 1..Len(numbers) :
              \/ numbers'[k].status = numbers[k].status
              \/ <<numbers[k].status, numbers'[k].status>> \in StatusEdges]_vars

\* C11: the snapshot of a run holds exactly the records that are valid and
\* 'pending' when the run starts; a record that is 'done' is not in it. (Stated
\* for a run that starts when no other run is under way.)
C11_SnapshotIsPending ==
    [][\A r \in RunIds :
          ( /\ runs[r].pc = "idle" /\ runs'[r].pc # "idle"
            /\ \A q \in RunIds : ~Active(q) )
          => Range(hist'[r].indices) =
                {k \in 1..Len(numbers) : numbers[k].isValid /\ numbers[k].status = "pending"}]_vars

\* ceil(n / k)
CeilDiv(n, k) == (n + k - 1) \div k

\* C12: a run that is not cancelled forms ceil(N/k) batches of consecutive records
\* of its snapshot of N records: batch j starts after the (j-1)*k records before
\* it and holds k records, the last one N mod k (k when k divides N).
C12_Batches ==
    [][\A r \in RunIds :
          (Active(r) /\ runs'[r].pc = "done" /\ hist[r].cancelPc = "none")
          => LET N == Len(runs[r].validNumbers)
                 k == runs[r].settings.batchSize
                 b == hist[r].batches
             IN  /\ Len(b) = CeilDiv(N, k)
                 /\ \A j \in 1..Len(b) :
                       /\ b[j].from = (j - 1) * k
                       /\ b[j].size = IF j < Len(b) THEN k
                                      ELSE IF N % k = 0 THEN k ELSE N % k]_vars

\* a run of three records in batches of two has formed its two batches and is
\* about to end
C12_Witness ==
    \E r \in RunIds :
        /\ runs[r].pc = "delay" /\ hist[r].cancelPc = "none"
        /\ Len(runs[r].validNumbers) = 3 /\ runs[r].settings.batchSize = 2
        /\ hist[r].batches = <<[from |-> 0, size |-> 2], [from |-> 2, size |-> 1]>>

\* C13: after a batch whose verification returned an entry for every requested
\* number, every record of the batch is 'done', also when two records of the
\* batch have the same normalized number. (Stated for snapshots whose records
\* have different raw strings.)
C13_CompleteBatchIsDone ==
    \A r \in RunIds :
        (hist[r].last = "complete" /\ DistinctNumbers(runs[r].validNumbers))
        => \A j \in BatchPositions(runs[r]) : numbers[hist[r].indices[j]].status = "done"

\* a record's reachable value is true: hasWhatsApp holds the wa_id of the number
Reachable(n) == n.hasWhatsApp \notin {Null, Undefined, "false"}

\* the canonical numbers of the reachable records, one per record, in store order
RECURSIVE ReachableCanonicals(_)
ReachableCanonicals(nums) ==
    IF nums = <<>> THEN <<>>
    ELSE (IF Reachable(Head(nums)) THEN <<Head(nums).normalizedNumber>> ELSE <<>>)
         \o ReachableCanonicals(Tail(nums))

\* C14: an export yields, in store order, the canonical number of each record whose
\* reachable value is true, and nothing for the other records.
C14_ExportIsReachable ==
    [][downloads' # downloads =>
          downloads'[Len(downloads')] = ReachableCanonicals(numbers)]_vars

\* an export was made of a store with a reachable record and a record that is not
C14_Witness ==
    /\ downloads # <<>>
    /\ downloads[Len(downloads)] # <<>>
    /\ Len(downloads[Len(downloads)]) < Len(exportedFrom)
    /\ \E k \in 1..Len(exportedFrom) : exportedFrom[k].hasWhatsApp = "false"

\* C15: an export reads only: the record store, the counters, the cache and the
\* runs are as before it, and an export of a store that has not changed since the
\* export before it yields the same file.
C15_ExportIsPureRead ==
    [][downloads' # downloads =>
          /\ UNCHANGED <<numbers, ui, abortControllerRef, aborted, cache, runs>>
          /\ (downloads # <<>> /\ exportedFrom = numbers)
                => downloads'[Len(downloads')] = downloads[Len(downloads)]]_vars

\* two exports were made of the same store, the second right after the first
C15_Witness ==
    /\ Len(downloads) = 2
    /\ downloads[1] = downloads[2]
    /\ downloads[2] # <<>>
    /\ exportedFrom = numbers

\* C16: a raw number that starts with '+' normalizes to the same validity,
\* canonical number and country under every default country: each record of such
\* a number is what any other default country would have made of it.
C16_PlusIgnoresDefault ==
    \A k \in 1..Len(numbers) :
        StartsWithPlus(numbers[k].number) =>
            \A countryCode \in CountryCodes :
                LET other == validatePhoneNumber(numbers[k].number, countryCode)
                IN  /\ other.isValid = numbers[k].isValid
                    /\ other.normalized = numbers[k].normalizedNumber
                    /\ other.country = numbers[k].country

\* C17: when a run ends, the canonical number of every record it classified
\* reachable is in the presence cache.
C17_ReachableIsCached ==
    [][\A r \in RunIds :
          (Active(r) /\ runs'[r].pc = "done")
          => \A j \in 1..Len(hist[r].indices) :
                LET n == numbers[hist[r].indices[j]]
                IN  (n.status = "done" /\ Reachable(n)) => n.normalizedNumber \in cache']_vars

\* C18: every run that was started reaches its end, with isProcessing false,
\* whatever the verification calls return or throw.
C18_RunTerminates ==
    \A r \in RunIds : Active(r) ~> (runs[r].pc = "done" /\ ~ui.isProcessing)

\* a run has ended after a batch of it failed all its attempts
C18_Witness ==
    \E r \in RunIds :
        /\ runs[r].pc = "done" /\ ~ui.isProcessing
        /\ \E k \in 1..Len(numbers) :
              numbers[k].isValid /\ numbers[k].status = "error"

\* C19: when the request to the verification endpoint fails (transport or HTTP
\* error), the attempt has failed: the run is in the retry loop's wait, before the
\* next attempt or the marking of the batch as 'error'.
C19_FetchFailureIsRetried ==
    \A r \in RunIds : hist[r].last = "fetchFailed" => runs[r].pc = "retryWait"

\* C21: a start with at least one eligible record (no run being under way) takes
\* the eligible records as the run's snapshot, its length as the total, moves the
\* records of the first batch to 'checking' and makes a verification attempt.
C21_StartEntersFirstBatch ==
    [][( /\ \A q \in RunIds : ~Active(q)
         /\ EligibleNumbers(numbers) # <<>>
         /\ imports' = imports
         /\ ui' # ui )
       => \E r \in RunIds :
             /\ Active(r)'
             /\ Len(runs'[r].validNumbers) = Len(EligibleNumbers(numbers))
             /\ runs'[r].pc \in {"fetch", "lookup"}
             /\ hist'[r].calls = 1
             /\ \A j \in BatchPositions(runs'[r]) :
                   numbers'[hist'[r].indices[j]].status = "checking"]_vars

\* C22: the batches of a run are formed in snapshot order and one at a time: a
\* batch is formed only when the run is past the attempts of the batch before
\* it (no call in flight, the call returned or the batch was given up), the
\* counters stand at the end of that batch, and the new batch starts where that
\* batch ended.
C22_BatchesInOrder ==
    [][\A r \in RunIds :
          (Len(hist[r].batches) >= 1 /\ Len(hist'[r].batches) = Len(hist[r].batches) + 1)
          => LET before == hist[r].batches[Len(hist[r].batches)]
                 formed == hist'[r].batches[Len(hist'[r].batches)]
             IN  /\ runs[r].pc = "delay" /\ runs[r].request = <<>>
                 /\ hist[r].exhausted \/ hist[r].last \in {"complete", "missing", "aborted"}
                 /\ formed.from = before.from + before.size
                 /\ runs[r].processedCount = formed.from
                 /\ ui.validatedCount = formed.from
                 /\ \A j \in 1..Len(hist[r].batches) : hist'[r].batches[j] = hist[r].batches[j]]_vars

\* a run is at the first attempt of its third batch, the second having been given up
C22_Witness ==
    \E r \in RunIds :
        /\ Len(hist[r].batches) = 3 /\ runs[r].pc \in {"fetch", "lookup"}
        /\ \E k \in 1..Len(numbers) : numbers[k].status = "error"

\* the run's processedCount stands at the end of the current batch once the batch
\* has its outcome (the call returned, or the batch was given up), and at its
\* start before
CountedUpTo(run, h) ==
    IF run.pc = "delay" \/ (run.pc = "retryWait" /\ h.exhausted)
    THEN run.i + Len(BatchOf(run))
    ELSE run.i

\* C23: for maxRetries >= 0, a run starts with processedCount and the reachable
\* count at 0, processedCount grows by the length of the batch with the outcome
\* of every batch (results or given up), and when a run that was not cancelled
\* ends processedCount is the length of the snapshot.
C23_ProcessedCount ==
    [][\A r \in RunIds :
          /\ (Active(r)' /\ runs'[r].settings.maxRetries >= 0)
             => /\ runs'[r].processedCount = CountedUpTo(runs'[r], hist'[r])
                /\ ui'.validatedCount = runs'[r].processedCount
                /\ ~Active(r) => /\ runs'[r].processedCount = 0 /\ runs'[r].validCount = 0
                                 /\ ui'.totalValidNumbers = 0
          /\ (Active(r) /\ runs'[r].pc = "done" /\ hist[r].cancelPc = "none"
                /\ runs[r].settings.maxRetries >= 0)
             => /\ runs[r].processedCount = Len(runs[r].validNumbers)
                /\ ui.validatedCount = Len(runs[r].validNumbers)]_vars

\* a run started after 0 was typed for maxRetries, of two batches of one record,
\* is at its end: the second batch was given up, both records are counted
C23_Witness ==
    \E r \in RunIds :
        /\ runs[r].pc = "delay" /\ hist[r].cancelPc = "none" /\ hist[r].exhausted
        /\ runs[r].settings.maxRetries = PanelValue(0, 3)
        /\ Len(runs[r].validNumbers) = 2 /\ runs[r].i = 1
        /\ runs[r].processedCount = 2

\* the records that hold a reachable value of true
ReachableRecords == {k \in 1..Len(numbers) : Truthy(numbers[k].hasWhatsApp)}

\* C24: once a batch's results are written and its counters moved, the count
\* shown as totalValidNumbers is the number of records the run has classified
\* reachable so far. (One import and one run: every reachable record was
\* classified by this run.)
C24_ReachableCountIsExact ==
    \A r \in RunIds :
        (runs[r].pc = "delay" /\ hist[r].last \in {"complete", "missing", "aborted"})
        => ui.totalValidNumbers = Cardinality(ReachableRecords)

\* the records of the store have different canonical numbers, and no raw string
\* is the canonical number of another record
DistinctCanonicals(nums) ==
    \A j, k \in 1..Len(nums) :
        j # k => /\ OrElse(nums[j].normalizedNumber, nums[j].number)
                      # OrElse(nums[k].normalizedNumber, nums[k].number)
                 /\ nums[j].number # nums[k].normalizedNumber

\* C25: after a call that returned, the record of every returned entry is 'done';
\* its reachable value is true exactly when the entry's status is 'valid' and
\* the entry has a wa_id, and otherwise it is false with the error detail
\* 'Not on WhatsApp'. (Stated for stores whose records have different numbers:
\* the entry of a number belongs to one record.)
C25_EntryReconciled ==
    \A r \in RunIds :
        (runs[r].pc = "delay" /\ hist[r].last \in {"complete", "missing"}
            /\ DistinctCanonicals(numbers))
        => \A e \in 1..Len(hist[r].results) :
              LET entry == hist[r].results[e]
              IN  \E k \in 1..Len(numbers) :
                     /\ numbers[k].normalizedNumber = entry.input
                     /\ numbers[k].status = "done"
                     /\ Reachable(numbers[k]) <=> (entry.status = "valid" /\ Truthy(entry.wa_id))
                     /\ ~Reachable(numbers[k]) => numbers[k].error = "Not on WhatsApp"

\* a batch of two came back with a 'valid' entry that has no wa_id and a 'valid'
\* entry that has one
C25_Witness ==
    \E r \in RunIds :
        /\ runs[r].pc = "delay" /\ hist[r].last = "complete" /\ DistinctCanonicals(numbers)
        /\ Len(hist[r].results) = 2
        /\ hist[r].results[1].status = "valid" /\ hist[r].results[1].wa_id = Undefined
        /\ hist[r].results[2].status = "valid" /\ hist[r].results[2].wa_id # Undefined
        /\ \E k \in 1..Len(numbers) : numbers[k].status = "done" /\ numbers[k].hasWhatsApp = Undefined

\* the places in the store of the records of the run's current batch
BatchRecords(run, h) == {h.indices[j] : j \in BatchPositions(run)}

\* C26: the step that forms a batch sets the status of the records of that batch
\* to 'checking' and changes nothing else: the other fields of these records and
\* every record outside the batch are as before.
C26_CheckingFrame ==
    [][\A r \in RunIds :
          (Active(r)' /\ Len(hist'[r].batches) # Len(hist[r].batches))
          => \A k \in 1..Len(numbers) :
                IF k \in BatchRecords(runs'[r], hist'[r])
                THEN numbers'[k] = [numbers[k] EXCEPT !.status = "checking"]
                ELSE numbers'[k] = numbers[k]]_vars

\* C27: a run sleeps delayBetweenBatches only between two batches: when it is on
\* that sleep another batch is left in the snapshot and the run was not cancelled.
C27_DelayOnlyBetweenBatches ==
    \A r \in RunIds :
        runs[r].pc = "delay"
        => /\ NextIndex(runs[r]) < Len(runs[r].validNumbers)
           /\ hist[r].cancelPc = "none"

\* C28: once a run was cancelled while it was on the retryDelay or on the
\* delayBetweenBatches, it makes no verification call any more and changes no
\* record.
C28_CancelledWaitStops ==
    [][\A r \in RunIds :
          (hist[r].cancelPc \in {"retryWait", "delay"} /\ runs'[r] # runs[r])
          => /\ runs'[r].pc \notin {"fetch", "lookup"}
             /\ numbers' = numbers]_vars

\* C29: a request that cancel aborted comes back as an empty result and not as
\* an error: the attempt counts as the batch's success with no entries, no
\* record is written, the run goes on to the delay and not to a retry, and no
\* further call is made for that batch.
C29_AbortIsNotRetried ==
    [][\A r \in RunIds :
          /\ (runs[r].pc = "fetch" /\ SignalAborted(runs[r]) /\ runs'[r] # runs[r])
             => /\ hist'[r].last = "aborted" /\ hist'[r].results = <<>>
                /\ runs'[r].pc = "delay"
                /\ runs'[r].attemptCount = runs[r].attemptCount
                /\ ~hist'[r].exhausted
                /\ numbers' = numbers
          /\ (hist[r].last = "aborted" /\ hist'[r].calls # hist[r].calls)
             => Len(hist'[r].batches) # Len(hist[r].batches)]_vars

\* a request of a batch of two was aborted and the run is on the delay after it
C29_Witness ==
    \E r \in RunIds :
        /\ hist[r].last = "aborted" /\ hist[r].cancelPc = "fetch"
        /\ runs[r].pc = "delay" /\ Len(BatchOf(runs[r])) = 2
        /\ hist[r].calls = 1

\* C30: with useMetaApi off, the result of a call has one entry per requested
\* number, in request order, and the entry of every number that is in the cache
\* is 'valid' with the stored wa_id, whatever was drawn.
C30_CachedIsValid ==
    \A r \in RunIds :
        (runs[r].pc = "delay" /\ hist[r].last = "complete" /\ ~runs[r].settings.useMetaApi)
        => LET requested == PhoneNumbersToCheck(BatchOf(runs[r]))
               results == hist[r].results
           IN  /\ Len(results) = Len(requested)
               /\ \A k \in 1..Len(requested) :
                     /\ results[k].input = requested[k]
                     /\ requested[k] \in cache
                        => results[k].status = "valid" /\ results[k].wa_id = StripPlus(requested[k])

\* the strings that normalize under every default country, and those that
\* normalize under none
AlwaysNormalizes == {"+221A", "+221B", "+870N"}
NeverNormalizes == {"x", "y"}

\* C31: after an import the store holds one record per string of the list, in
\* the order of the list, each with reachable unknown: a string that normalizes
\* gave a valid 'pending' record with its canonical number, a string that does
\* not gave an invalid 'error' record with an error detail and no canonical
\* number (also when the parser threw or returned nothing).
C31_Seeding ==
    /\ Len(numbers) = Len(imported)
    /\ \A k \in 1..Len(numbers) :
          LET n == numbers[k]
          IN  /\ n.number = imported[k]
              /\ n.hasWhatsApp = Null
              /\ \/ n.isValid /\ n.status = "pending" /\ Truthy(n.normalizedNumber)
                       /\ n.error = Undefined
                 \/ ~n.isValid /\ n.status = "error" /\ n.normalizedNumber = Undefined
                       /\ Truthy(n.error)
              /\ imported[k] \in AlwaysNormalizes => n.isValid
              /\ imported[k] \in NeverNormalizes => ~n.isValid

\* a list of a string for which the parser returns nothing and a national
\* number that normalizes under the default country was imported
C31_Witness ==
    /\ Len(imported) = 2
    /\ imported[1] = "y" /\ imported[2] = "0A"
    /\ numbers[1].status = "error" /\ numbers[1].error = "Invalid phone number format"
    /\ numbers[2].status = "pending" /\ numbers[2].normalizedNumber = "+221A"

\* C32: while the store holds no valid record with a status other than 'error',
\* no run begins, and the step that reports 'No valid phone numbers to process'
\* changes nothing but the error message: the records, the counters,
\* isProcessing (false) and the controller are as before.
C32_RefusedStart ==
    [][EligibleNumbers(numbers) = <<>>
          => /\ \A r \in RunIds : ~Active(r) => ~Active(r)'
             /\ (ui'.error = "No valid phone numbers to process" /\ ui'.error # ui.error)
                => /\ ui' = [ui EXCEPT !.error = "No valid phone numbers to process"]
                   /\ ~ui'.isProcessing
                   /\ numbers' = numbers
                   /\ abortControllerRef' = abortControllerRef
                   /\ aborted' = aborted
                   /\ runs' = runs /\ cache' = cache]_vars

\* a start was refused after a run that gave up its one batch: the counters of
\* that run are still shown
C32_Witness ==
    /\ ui.error = "No valid phone numbers to process"
    /\ ui.validatedCount > 0 /\ ~ui.isProcessing
    /\ \E k \in 1..Len(numbers) : numbers[k].isValid /\ numbers[k].status = "error"

\* C33: isProcessing is true exactly while a batch loop is under way.
C33_ProcessingIffLoop == ui.isProcessing <=> \E r \in RunIds : Active(r)

\* C34: the end of a run leaves alone a controller that a later start put into
\* abortControllerRef.
C34_EndKeepsLaterController ==
    [][\A r \in RunIds :
          (Active(r) /\ runs'[r].pc = "done" /\ abortControllerRef \notin {NoController, r})
          => abortControllerRef' = abortControllerRef]_vars

\* C35: the shown progress never exceeds 100; a step that starts a run sets
\* progress and validatedCount to 0; and any other step taken while a batch loop
\* is under way lowers neither of them.
C35_ProgressMonotone ==
    [][/\ ui'.progress <= 100
       /\ (\E r \in RunIds : ~Active(r) /\ Active(r)')
          => ui'.progress = 0 /\ ui'.validatedCount = 0
       /\ ((\E r \in RunIds : Active(r)) /\ (\A r \in RunIds : Active(r)' => Active(r)))
          => ui'.progress >= ui.progress /\ ui'.validatedCount >= ui.validatedCount]_vars

\* C36: once handleCancel has been called while handleBulkSend is between its
\* start and its end (in the per-message delay or with a request in flight), the
\* handleBulkSend call issues no further request to the messaging endpoint.
C36_NoRequestAfterCancel ==
    [][whatsApp.log.cancelPc # "none" => whatsApp'.log.requests = whatsApp.log.requests]_vars

\* C37: after handleCancel the loop of handleBulkSend stops: no further item is
\* visited, none is counted as failed, and the 'Sent x/total' result is not put
\* up for the cancelled call.
C37_CancelStopsLoop ==
    [][whatsApp.log.cancelPc # "none" =>
          /\ whatsApp'.log.visited = whatsApp.log.visited
          /\ whatsApp'.bulk.failedCount <= whatsApp.bulk.failedCount
          /\ whatsApp'.sendResult.kind = "final" => whatsApp.sendResult.kind = "final"]_vars

\* the moves of the delivery status the claim allows within one send
AllowedMoves ==
    {<<"pending", "sent">>, <<"pending", "failed">>,
     <<"sent", "delivered">>, <<"sent", "failed">>}

\* C38: a handleSend call starts its send at 'pending'; within one send the
\* delivery status moves only pending -> sent -> delivered or failed, or
\* pending -> failed; and a status check is issued only while the status is
\* 'sent' and a message id is known, so none is issued once the status is
\* 'delivered' or 'failed'.
C38_DeliveryMoves ==
    [][/\ whatsApp'.sends # whatsApp.sends => whatsApp'.deliveryStatus = "pending"
       /\ (whatsApp'.sends = whatsApp.sends /\ whatsApp'.deliveryStatus # whatsApp.deliveryStatus)
             => <<whatsApp.deliveryStatus, whatsApp'.deliveryStatus>> \in AllowedMoves
       /\ (whatsApp'.checks \ whatsApp.checks # {}) => PollingActive(whatsApp)]_vars

====
